---- MODULE Spec2Model ----
(***************************************************************************)
(* medtracker: medications, dose logs, the adherence and dosing            *)
(* calculator of the Medication model, and the request handlers of         *)
(* medtrackerapp/views.py that sit in front of it.                         *)
(*                                                                         *)
(* The record store is (medications, doseLogs, notes); `today` is the      *)
(* current date of the server clock.  Every operation leaves its outcome   *)
(* in `out`: an HTTP response for a request handler, a returned value or   *)
(* a raised ValueError for a direct call of a model method.                *)
(***************************************************************************)
EXTENDS Integers, Sequences, FiniteSets, TLC

\* ------------------------------------------------------------------ bounds
MaxMedId    == 2    \* medication ids are 1..MaxMedId
MaxLogId    == 2    \* dose-log ids handed out by the API are 1..MaxLogId
MaxCalcLogs == 2    \* dose logs in a store the calculator is called on
MaxPerDay   == 2    \* prescribed_per_day ranges over 0..MaxPerDay
MaxTime     == 4    \* taken_at timestamps are 0..MaxTime
TicksPerDay == 2    \* timestamps per calendar day
MaxDays     == 3    \* direct calls of expected_doses use days in -2..MaxDays
MaxNoteId   == 2    \* note ids handed out by the API are 1..MaxNoteId
MaxRecords  == 3    \* records created in a run of all three viewsets

VARIABLES medications, nextMedId, doseLogs, nextLogId, notes, nextNoteId,
          today, out, inflight

vars == <<medications, nextMedId, doseLogs, nextLogId, notes, nextNoteId,
          today, out, inflight>>

None == "None"

MedIds   == 1..MaxMedId
LogIds   == 1..MaxLogId
NoteIds  == 1..MaxNoteId
Times    == 0..MaxTime
PerDays  == 0..MaxPerDay
Names    == {"Aspirin", "Paracetamol"}

\* taken_at__date: the calendar date of a timestamp
DateOf(t) == t \div TicksPerDay

Dates == 0..DateOf(MaxTime)

\* ------------------------------------------------------------ arithmetic
RECURSIVE GCD(_, _)
GCD(a, b) == IF b = 0 THEN a ELSE GCD(b, a % b)

\* the number n / d, for n >= 0 and d > 0, in lowest terms
Frac(n, d) == LET g == GCD(n, d) IN [num |-> n \div g, den |-> d \div g]

Zero == Frac(0, 1)

\* --------------------------------------------------- int(days_param)
\* A query-parameter value is a string, modelled as a sequence of
\* one-character strings, or NoParam when the request does not carry it
\* (query_params.get returns None).
NoParam == <<None>>

Digits == {"0", "1", "2", "3", "4", "5", "6", "7", "8", "9"}

DigitVal(c) ==
    CASE c = "0" -> 0 [] c = "1" -> 1 [] c = "2" -> 2 [] c = "3" -> 3
      [] c = "4" -> 4 [] c = "5" -> 5 [] c = "6" -> 6 [] c = "7" -> 7
      [] c = "8" -> 8 [] c = "9" -> 9

RECURSIVE LStrip(_)
LStrip(s) == IF s # <<>> /\ Head(s) = " " THEN LStrip(Tail(s)) ELSE s

RECURSIVE RStrip(_)
RStrip(s) ==
    IF s # <<>> /\ s[Len(s)] = " " THEN RStrip(SubSeq(s, 1, Len(s) - 1)) ELSE s

RECURSIVE DigitsValue(_, _)
DigitsValue(s, acc) ==
    IF s = <<>> THEN acc ELSE DigitsValue(Tail(s), 10 * acc + DigitVal(Head(s)))

\* Python's int(str): surrounding whitespace is ignored, one optional sign,
\* then at least one decimal digit and nothing else; anything else raises
\* ValueError.
PyInt(s) ==
    LET t      == RStrip(LStrip(s))
        signed == t # <<>> /\ Head(t) \in {"+", "-"}
        body   == IF signed THEN Tail(t) ELSE t
        ok     == body # <<>> /\ \A i \in 1..Len(body) : body[i] \in Digits
        mag    == IF ok THEN DigitsValue(body, 0) ELSE 0
    IN  [ok |-> ok,
         value |-> IF signed /\ Head(t) = "-" THEN 0 - mag ELSE mag]

DaysParams ==
    { NoParam,
      <<>>,
      <<"a", "b", "c">>,
      <<"7", ".", "5">>,
      <<"-">>,
      <<"0">>,
      <<"-", "5">>,
      <<"-", "0">>,
      <<"7">>,
      <<"+", "2">>,
      <<" ", "3">> }

\* ----------------------------------------------------- Medication model
InvalidScheduleMessage == "Days and schedule must be positive."
InvalidRangeMessage    == "start_date must be before or equal to end_date"

\* expected_doses without the schedule check: an unscheduled medication
\* yields a number
Medication_expected_doses_NoScheduleCheck(prescribed_per_day, days) ==
    IF days < 0
    THEN [raised |-> TRUE, error |-> InvalidScheduleMessage, value |-> None]
    ELSE [raised |-> FALSE, error |-> None, value |-> days * prescribed_per_day]

\* expected_doses rejecting zero days too
Medication_expected_doses_RejectsZeroDays(prescribed_per_day, days) ==
    IF days <= 0 \/ prescribed_per_day <= 0
    THEN [raised |-> TRUE, error |-> InvalidScheduleMessage, value |-> None]
    ELSE [raised |-> FALSE, error |-> None, value |-> days * prescribed_per_day]

\* Medication.expected_doses(days)
Medication_expected_doses(prescribed_per_day, days) ==
    IF days < 0 \/ prescribed_per_day <= 0
    THEN [raised |-> TRUE, error |-> InvalidScheduleMessage, value |-> None]
    ELSE [raised |-> FALSE, error |-> None, value |-> days * prescribed_per_day]

\* a doselog_set that is not restricted to the medication
doselog_set_AllLogs(logs, pk) == DOMAIN logs

\* medication.doselog_set: the ids of the logs that reference medication pk
doselog_set(logs, pk) == {l \in DOMAIN logs : logs[l].medication = pk}

\* QuerySet.filter(was_taken=True)
filter_was_taken(logs, ids) == {l \in ids : logs[l].was_taken}

\* a date filter whose upper bound is exclusive
filter_date_range_EndExclusive(logs, ids, start, end) ==
    {l \in ids : DateOf(logs[l].taken_at) >= start /\ DateOf(logs[l].taken_at) < end}

\* QuerySet.filter(taken_at__date__gte=start, taken_at__date__lte=end)
filter_date_range(logs, ids, start, end) ==
    {l \in ids : DateOf(logs[l].taken_at) >= start /\ DateOf(logs[l].taken_at) <= end}

\* QuerySet.count(), one row at a time
RECURSIVE count(_)
count(ids) ==
    IF ids = {} THEN 0
    ELSE LET x == CHOOSE y \in ids : TRUE IN 1 + count(ids \ {x})

\* Medication.adherence_rate()
Medication_adherence_rate(logs, pk) ==
    LET mine  == doselog_set(logs, pk)
        total == count(mine)
        taken == count(filter_was_taken(logs, mine))
    IN  IF total = 0 THEN Zero ELSE Frac(100 * taken, total)

\* a day count that leaves out the end date
days_in_range_EndExcluded(start_date, end_date) == end_date - start_date

\* (end_date - start_date).days + 1
days_in_range(start_date, end_date) == (end_date - start_date) + 1

\* a period rate that stops at 100
Medication_adherence_rate_over_period_Capped(prescribed_per_day, logs, pk, start_date, end_date) ==
    IF start_date > end_date
    THEN [raised |-> TRUE, error |-> InvalidRangeMessage, value |-> None]
    ELSE LET days     == days_in_range(start_date, end_date)
             expected == Medication_expected_doses(prescribed_per_day, days)
             in_range == filter_date_range(logs, doselog_set(logs, pk),
                                           start_date, end_date)
             taken    == count(filter_was_taken(logs, in_range))
         IN  IF expected.raised \/ expected.value = 0
             THEN [raised |-> FALSE, error |-> None, value |-> Zero]
             ELSE [raised |-> FALSE, error |-> None,
                   value |-> IF taken > expected.value THEN Frac(100, 1)
                             ELSE Frac(100 * taken, expected.value)]

\* adherence_rate_over_period letting the ValueError of expected_doses
\* through
Medication_adherence_rate_over_period_Propagates(prescribed_per_day, logs, pk, start_date, end_date) ==
    IF start_date > end_date
    THEN [raised |-> TRUE, error |-> InvalidRangeMessage, value |-> None]
    ELSE LET days     == days_in_range(start_date, end_date)
             expected == Medication_expected_doses(prescribed_per_day, days)
             in_range == filter_date_range(logs, doselog_set(logs, pk),
                                           start_date, end_date)
             taken    == count(filter_was_taken(logs, in_range))
         IN  IF expected.raised
             THEN [raised |-> TRUE, error |-> expected.error, value |-> None]
             ELSE IF expected.value = 0
             THEN [raised |-> FALSE, error |-> None, value |-> Zero]
             ELSE [raised |-> FALSE, error |-> None,
                   value |-> Frac(100 * taken, expected.value)]

\* Medication.adherence_rate_over_period(start_date, end_date)
Medication_adherence_rate_over_period(prescribed_per_day, logs, pk, start_date, end_date) ==
    IF start_date > end_date
    THEN [raised |-> TRUE, error |-> InvalidRangeMessage, value |-> None]
    ELSE LET days     == days_in_range(start_date, end_date)
             expected == Medication_expected_doses(prescribed_per_day, days)
             in_range == filter_date_range(logs, doselog_set(logs, pk),
                                           start_date, end_date)
             taken    == count(filter_was_taken(logs, in_range))
         IN  IF expected.raised \/ expected.value = 0
             THEN [raised |-> FALSE, error |-> None, value |-> Zero]
             ELSE [raised |-> FALSE, error |-> None,
                   value |-> Frac(100 * taken, expected.value)]

\* ------------------------------------------------------ request handlers
\* a gate that checks positivity before type-validity
validate_days_parameter_PositivityFirst(days_param) ==
    IF days_param = NoParam
    THEN [rejected |-> TRUE, status |-> 400,
          error |-> "Query parameter 'days' is required.",
          steps |-> <<"is_none">>, days |-> None]
    ELSE IF PyInt(days_param).value <= 0
    THEN [rejected |-> TRUE, status |-> 400,
          error |-> "Days must be a positive integer greater than zero.",
          steps |-> <<"is_none", "positive">>, days |-> None]
    ELSE IF ~PyInt(days_param).ok
    THEN [rejected |-> TRUE, status |-> 400,
          error |-> "Days must be a valid integer.",
          steps |-> <<"is_none", "positive", "int">>, days |-> None]
    ELSE [rejected |-> FALSE, status |-> 0, error |-> None,
          steps |-> <<"is_none", "positive", "int">>,
          days |-> PyInt(days_param).value]

\* MedicationViewSet._validate_days_parameter: a Response (rejected) or the
\* validated integer; `steps` lists the checks the code went through.
validate_days_parameter(days_param) ==
    IF days_param = NoParam
    THEN [rejected |-> TRUE, status |-> 400,
          error |-> "Query parameter 'days' is required.",
          steps |-> <<"is_none">>, days |-> None]
    ELSE IF ~PyInt(days_param).ok
    THEN [rejected |-> TRUE, status |-> 400,
          error |-> "Days must be a valid integer.",
          steps |-> <<"is_none", "int">>, days |-> None]
    ELSE IF PyInt(days_param).value <= 0
    THEN [rejected |-> TRUE, status |-> 400,
          error |-> "Days must be a positive integer greater than zero.",
          steps |-> <<"is_none", "int", "positive">>, days |-> None]
    ELSE [rejected |-> FALSE, status |-> 0, error |-> None,
          steps |-> <<"is_none", "int", "positive">>,
          days |-> PyInt(days_param).value]

\* a lookup that hands out a blank medication for an unknown key
get_object_BlankWhenMissing(meds, pk) ==
    IF pk \in DOMAIN meds
    THEN [found |-> TRUE, id |-> pk, name |-> meds[pk].name,
          prescribed_per_day |-> meds[pk].prescribed_per_day]
    ELSE [found |-> TRUE, id |-> pk, name |-> "",
          prescribed_per_day |-> 0]

\* self.get_object(): the medication with primary key pk, or Http404
get_object(meds, pk) ==
    IF pk \in DOMAIN meds
    THEN [found |-> TRUE, id |-> pk, name |-> meds[pk].name,
          prescribed_per_day |-> meds[pk].prescribed_per_day]
    ELSE [found |-> FALSE, id |-> None, name |-> None,
          prescribed_per_day |-> None]

\* a success payload that reports the day count as the dose count
SuccessResponse_DaysAsDoses(medication, days, expected_doses_value) ==
    [status |-> 200,
     body |-> [medication_id |-> medication.id,
               days |-> days,
               expected_doses |-> days]]

\* the success payload of MedicationViewSet.expected_doses
SuccessResponse(medication, days, expected_doses_value) ==
    [status |-> 200,
     body |-> [medication_id |-> medication.id,
               days |-> days,
               expected_doses |-> expected_doses_value]]

\* a ValueError of the calculator left unhandled: a server error
ValueErrorResponse_Unhandled(error) ==
    [status |-> 500, body |-> [error |-> "Internal Server Error"]]

\* the except ValueError branch of MedicationViewSet.expected_doses
ValueErrorResponse(error) ==
    [status |-> 400, body |-> [error |-> error]]

\* an expected_doses that looks the medication up before the days gate
MedicationViewSet_expected_doses_LookupFirst(meds, pk, days_param) ==
    LET v    == validate_days_parameter(days_param)
        base == [op |-> "expected-doses", pk |-> pk, param |-> days_param]
        medication == get_object(meds, pk)
    IN  IF ~medication.found
        THEN base @@ [status |-> 404, body |-> [detail |-> "Not found."],
                      steps |-> <<"get_object">>]
        ELSE IF v.rejected
        THEN base @@ [status |-> v.status, body |-> [error |-> v.error],
                      steps |-> <<"get_object">> \o v.steps]
        ELSE LET r == Medication_expected_doses(
                          medication.prescribed_per_day, v.days)
                 s == <<"get_object">> \o v.steps \o <<"expected_doses">>
             IN  IF r.raised
                 THEN base @@ ValueErrorResponse(r.error) @@ [steps |-> s]
                 ELSE base @@ SuccessResponse(medication, v.days, r.value)
                           @@ [steps |-> s]

\* MedicationViewSet.expected_doses: the response to
\* GET /medications/{pk}/expected-doses/?days=days_param
MedicationViewSet_expected_doses(meds, pk, days_param) ==
    LET v    == validate_days_parameter(days_param)
        base == [op |-> "expected-doses", pk |-> pk, param |-> days_param]
    IN  IF v.rejected
        THEN base @@ [status |-> v.status, body |-> [error |-> v.error],
                      steps |-> v.steps]
        ELSE LET medication == get_object(meds, pk)
             IN  IF ~medication.found
                 THEN base @@ [status |-> 404, body |-> [detail |-> "Not found."],
                               steps |-> v.steps \o <<"get_object">>]
                 ELSE LET r == Medication_expected_doses(
                                   medication.prescribed_per_day, v.days)
                          s == v.steps \o <<"get_object", "expected_doses">>
                      IN  IF r.raised
                          THEN base @@ ValueErrorResponse(r.error) @@ [steps |-> s]
                          ELSE base @@ SuccessResponse(medication, v.days, r.value)
                                    @@ [steps |-> s]

\* ------------------------------------------- external drug information
\* A Python value as get_external_info sees it: a str, None, an int or a
\* list, given by its type and its repr, or a dict given by its items.
PyStr(s)    == [type |-> "str", repr |-> s]
PyNone      == [type |-> "NoneType", repr |-> "None"]
PyZero      == [type |-> "int", repr |-> "0"]
PyEmptyList == [type |-> "list", repr |-> "[]"]
PyDict(items) == [type |-> "dict", items |-> items]

\* bool(value)
Truthy(value) ==
    CASE value.type = "str"      -> value.repr # ""
      [] value.type = "NoneType" -> FALSE
      [] value.type = "int"      -> value.repr # "0"
      [] value.type = "list"     -> value.repr # "[]"
      [] value.type = "dict"     -> DOMAIN value.items # {}

\* dict.get(key): the value under key, or None
dict_get(d, key) == IF key \in DOMAIN d.items THEN d.items[key] ELSE PyNone

\* What DrugInfoService.get_drug_info does when it is called: it returns a
\* payload or it raises an exception that carries a message.
RateLimitPayload  == PyDict([error |-> PyStr("API rate limit exceeded")])
EmptyErrorPayload == PyDict([error |-> PyStr("")])
NoneErrorPayload  == PyDict([error |-> PyNone])
ZeroErrorPayload  == PyDict([error |-> PyZero])
EmptyResults      == PyDict([results |-> PyEmptyList])
InfoRecord        == PyDict([name |-> PyStr("acetylsalicylic acid"),
                             manufacturer |-> PyStr("Bayer")])

Payloads == { InfoRecord, EmptyResults, RateLimitPayload, EmptyErrorPayload,
              NoneErrorPayload, ZeroErrorPayload, PyEmptyList, PyNone,
              PyStr("error") }

Raised == [exc : {"Exception"}, message : {"Network connection failed", ""}]
          \cup [exc : {"TimeoutError"}, message : {"Request timed out"}]
          \cup [exc : {"ConnectionError"}, message : {"Connection failed"}]

Replies == { [kind |-> "return", payload |-> p] : p \in Payloads }
           \cup { [kind |-> "raise", exc |-> e.exc, message |-> e.message] :
                    e \in Raised }

\* Medication.fetch_external_info(): one call of the collaborator with the
\* medication's name; an exception it raises becomes an error payload that
\* holds str(exc)
Medication_fetch_external_info(name, reply) ==
    [calls |-> << name >>,
     data  |-> IF reply.kind = "raise"
               THEN PyDict([error |-> PyStr(reply.message)])
               ELSE reply.payload]

\* an info response that fails for every dict that has an 'error' key
ExternalInfoResponse_AnyErrorKey(data) ==
    IF data.type = "dict" /\ "error" \in DOMAIN data.items
    THEN [status |-> 502, body |-> data]
    ELSE [status |-> 200, body |-> data]

\* an info response that is a success whatever the payload
ExternalInfoResponse_AlwaysSuccess(data) ==
    [status |-> 200, body |-> data]

\* the two returns of MedicationViewSet.get_external_info
ExternalInfoResponse(data) ==
    IF data.type = "dict" /\ Truthy(dict_get(data, "error"))
    THEN [status |-> 502, body |-> data]
    ELSE [status |-> 200, body |-> data]

\* MedicationViewSet.get_external_info: the response to
\* GET /medications/{pk}/info/ when the collaborator behaves as `reply`
MedicationViewSet_get_external_info(meds, pk, reply) ==
    LET medication == get_object(meds, pk)
        base == [op |-> "info", pk |-> pk, reply |-> reply]
    IN  IF ~medication.found
        THEN base @@ [status |-> 404, body |-> [detail |-> "Not found."],
                      calls |-> << >>]
        ELSE LET fetched == Medication_fetch_external_info(medication.name, reply)
             IN  base @@ ExternalInfoResponse(fetched.data)
                      @@ [calls |-> fetched.calls]

\* --------------------------------------------------- dose-log queries
IsDigits(s) == \A i \in 1..Len(s) : s[i] \in Digits

\* date_re of django.utils.dateparse, (\d{4})-(\d{1,2})-(\d{1,2})$ : the
\* three groups when the string matches
date_re_match(s) ==
    LET second == {j \in {7, 8} : /\ j < Len(s)
                                  /\ s[j] = "-"
                                  /\ IsDigits(SubSeq(s, 6, j - 1))
                                  /\ Len(s) - j \in {1, 2}
                                  /\ IsDigits(SubSeq(s, j + 1, Len(s)))}
        ok     == /\ Len(s) >= 5
                  /\ IsDigits(SubSeq(s, 1, 4))
                  /\ s[5] = "-"
                  /\ second # {}
        j      == CHOOSE x \in second : TRUE
    IN  IF ok
        THEN [matched |-> TRUE,
              year  |-> DigitsValue(SubSeq(s, 1, 4), 0),
              month |-> DigitsValue(SubSeq(s, 6, j - 1), 0),
              day   |-> DigitsValue(SubSeq(s, j + 1, Len(s)), 0)]
        ELSE [matched |-> FALSE, year |-> 0, month |-> 0, day |-> 0]

IsLeapYear(year) == (year % 4 = 0 /\ year % 100 # 0) \/ year % 400 = 0

DaysInMonth(year, month) ==
    CASE month = 2 -> IF IsLeapYear(year) THEN 29 ELSE 28
      [] month \in {4, 6, 9, 11} -> 30
      [] OTHER -> 31

RECURSIVE DaysBeforeMonth(_, _)
DaysBeforeMonth(year, month) ==
    IF month = 1 THEN 0
    ELSE DaysBeforeMonth(year, month - 1) + DaysInMonth(year, month - 1)

\* date.toordinal()
toordinal(year, month, day) ==
    LET y == year - 1
    IN  365 * y + (y \div 4) - (y \div 100) + (y \div 400)
        + DaysBeforeMonth(year, month) + day

\* datetime.date(year, month, day): ValueError outside the calendar.  A date
\* is counted in days from 2025-01-01, the date of timestamp 0.
datetime_date(year, month, day) ==
    IF /\ year \in 1..9999
       /\ month \in 1..12
       /\ day \in 1..DaysInMonth(year, month)
    THEN [kind |-> "date",
          value |-> toordinal(year, month, day) - toordinal(2025, 1, 1)]
    ELSE [kind |-> "raise", value |-> 0]

\* django.utils.dateparse.parse_date: a date, None when the string is not
\* well formatted, ValueError when it is well formatted but no date
parse_date(s) ==
    LET m == date_re_match(s)
    IN  IF m.matched
        THEN datetime_date(m.year, m.month, m.day)
        ELSE [kind |-> "none", value |-> 0]

DigitChar(n) == CHOOSE c \in Digits : DigitVal(c) = n

\* date.isoformat() of the dates of the model's timestamps
DateString(d) ==
    <<"2", "0", "2", "5", "-", "0", "1", "-", "0", DigitChar(d + 1)>>

DateParams ==
    { NoParam,
      <<"a", "b", "c">>,
      <<"2", "0", "2", "5", "-", "0", "2", "-", "3", "0">>,
      <<"2", "0", "2", "5", "-", "1", "-", "2">> }
    \cup { DateString(d) : d \in Dates }

\* the listings of ids, each id once
Orderings(ids) ==
    {f \in [1..Cardinality(ids) -> ids] :
        \A i, j \in 1..Cardinality(ids) : i # j => f[i] # f[j]}

\* creation order in place of the default ordering
DoseLog_Meta_ordering_ById(logs, ids) ==
    {f \in Orderings(ids) :
        \A i \in 1..(Cardinality(ids) - 1) : f[i] <= f[i + 1]}

\* DoseLog.Meta.ordering, most recent taken_at first; logs of equal taken_at
\* come in any order
DoseLog_Meta_ordering(logs, ids) ==
    {f \in Orderings(ids) :
        \A i \in 1..(Cardinality(ids) - 1) :
            logs[f[i]].taken_at >= logs[f[i + 1]].taken_at}

\* a date filter that keeps the default ordering
order_by_taken_at_DefaultOrdering(logs, ids) == DoseLog_Meta_ordering(logs, ids)

\* QuerySet.order_by("taken_at"): ascending, logs of equal taken_at in any
\* order
order_by_taken_at(logs, ids) ==
    {f \in Orderings(ids) :
        \A i \in 1..(Cardinality(ids) - 1) :
            logs[f[i]].taken_at <= logs[f[i + 1]].taken_at}

\* a filter that takes the two dates in either order
filter_taken_at_date_EitherOrder(logs, start, end) ==
    {l \in DOMAIN logs :
        \/ DateOf(logs[l].taken_at) >= start /\ DateOf(logs[l].taken_at) <= end
        \/ DateOf(logs[l].taken_at) >= end /\ DateOf(logs[l].taken_at) <= start}

\* self.get_queryset().filter(taken_at__date__gte=start,
\*                            taken_at__date__lte=end)
filter_taken_at_date(logs, start, end) ==
    {l \in DOMAIN logs :
        DateOf(logs[l].taken_at) >= start /\ DateOf(logs[l].taken_at) <= end}

\* DoseLogSerializer(logs, many=True).data for a listing of ids
DoseLogSerializer(logs, listing) ==
    [i \in 1..Len(listing) |->
        [id |-> listing[i],
         medication |-> logs[listing[i]].medication,
         taken_at |-> logs[listing[i]].taken_at,
         was_taken |-> logs[listing[i]].was_taken]]

\* DoseLogViewSet.filter_by_date: the responses GET /logs/filter/ can give;
\* a ValueError of parse_date is not caught and ends as a server error
DoseLogViewSet_filter_by_date(logs, start_str, end_str) ==
    LET base   == [op |-> "filter-logs", start |-> start_str, end |-> end_str]
        start  == parse_date(start_str)
        end    == parse_date(end_str)
    IN  IF start_str = NoParam \/ end_str = NoParam
        THEN { base @@ [status |-> 400,
                        body |-> [error |-> "Both 'start' and 'end' query parameters are required and must be valid dates."],
                        steps |-> <<"is_none">>] }
        ELSE IF start.kind = "raise" \/ end.kind = "raise"
        THEN { base @@ [status |-> 500,
                        body |-> [error |-> "ValueError"],
                        steps |-> <<"is_none", "parse_date">>] }
        ELSE IF start.kind = "none" \/ end.kind = "none"
        THEN { base @@ [status |-> 400,
                        body |-> [error |-> "Both 'start' and 'end' must be valid dates in YYYY-MM-DD format."],
                        steps |-> <<"is_none", "parse_date">>] }
        ELSE { base @@ [status |-> 200,
                        body |-> DoseLogSerializer(logs, listing),
                        steps |-> <<"is_none", "parse_date", "filter">>] :
               listing \in order_by_taken_at(
                               logs,
                               filter_taken_at_date(logs, start.value, end.value)) }

\* ------------------------------------------------- request validation
RequiredMessage    == "This field is required."
DoesNotExistMessage == "Invalid pk - object does not exist."

\* a related field that takes any key without looking it up
medication_field_error_NoLookup(meds, data, partial) ==
    IF "medication" \notin DOMAIN data
    THEN IF partial THEN None ELSE RequiredMessage
    ELSE None

\* the error of a PrimaryKeyRelatedField on Medication.objects.all(), or None
medication_field_error(meds, data, partial) ==
    IF "medication" \notin DOMAIN data
    THEN IF partial THEN None ELSE RequiredMessage
    ELSE IF data.medication \notin DOMAIN meds
    THEN DoesNotExistMessage
    ELSE None

\* the error of a required field that takes any value, or None
required_field_error(data, field, partial) ==
    IF field \notin DOMAIN data /\ ~partial THEN RequiredMessage ELSE None

\* DoseLogSerializer.is_valid(): the errors by field
DoseLogSerializer_errors(meds, data, partial) ==
    LET err(f) == CASE f = "medication" -> medication_field_error(meds, data, partial)
                    [] f = "taken_at"   -> required_field_error(data, f, partial)
                    [] f = "was_taken"  -> None
    IN  [f \in {x \in {"medication", "taken_at", "was_taken"} : err(x) # None}
            |-> err(f)]

\* NoteSerializer.validate_medication
NoteSerializer_validate_medication(meds, value) ==
    IF value \notin DOMAIN meds THEN "Medication does not exist." ELSE None

\* a validate_date that lets every date pass
NoteSerializer_validate_date_AnyDate(now_date, value) == None

\* NoteSerializer.validate_date: timezone.now().date() is now_date
NoteSerializer_validate_date(now_date, value) ==
    IF value > now_date THEN "Date cannot be in the future." ELSE None

\* NoteSerializer.is_valid(): the errors by field; validate_<field> runs on
\* a field that passed its own validation
NoteSerializer_errors(meds, now_date, data, partial) ==
    LET medication == medication_field_error(meds, data, partial)
        err(f) ==
            CASE f = "medication" ->
                    IF medication = None /\ "medication" \in DOMAIN data
                    THEN NoteSerializer_validate_medication(meds, data.medication)
                    ELSE medication
              [] f = "text" -> required_field_error(data, f, partial)
              [] f = "date" ->
                    IF "date" \in DOMAIN data
                    THEN NoteSerializer_validate_date(now_date, data.date)
                    ELSE required_field_error(data, f, partial)
    IN  [f \in {x \in {"medication", "text", "date"} : err(x) # None} |-> err(f)]

\* NoteSerializer(note).data
NoteSerializer(ns, n) ==
    [id |-> n, medication |-> ns[n].medication, text |-> ns[n].text,
     date |-> ns[n].date]

\* MedicationSerializer(data=...).validated_data: the fields of Meta.fields
\* a client can write. id is the key; adherence is a SerializerMethodField,
\* which is read-only. (dosage_mg is left out of the model.)
MedicationSerializer_validated_data(data) ==
    [f \in DOMAIN data \cap {"name", "prescribed_per_day"} |-> data[f]]

\* a serializer whose adherence is the rate over every stored log
MedicationSerializer_EveryLog(meds, logs, pk) ==
    [id |-> pk, name |-> meds[pk].name,
     prescribed_per_day |-> meds[pk].prescribed_per_day,
     adherence |-> Medication_adherence_rate(
                       [l \in DOMAIN logs |->
                           [logs[l] EXCEPT !.medication = pk]], pk)]

\* MedicationSerializer(medication).data; adherence is get_adherence
MedicationSerializer(meds, logs, pk) ==
    [id |-> pk, name |-> meds[pk].name,
     prescribed_per_day |-> meds[pk].prescribed_per_day,
     adherence |-> Medication_adherence_rate(logs, pk)]

\* a NoteViewSet that also routes PUT and PATCH
NoteViewSet_http_method_names_WithUpdates ==
    {"get", "post", "put", "patch", "delete", "head", "options"}

\* NoteViewSet.http_method_names
NoteViewSet_http_method_names == {"get", "post", "delete", "head", "options"}

\* a get_queryset that drops a filter it cannot parse
NoteViewSet_get_queryset_BadFilterDropped(ns, medication_id) ==
    IF medication_id = NoParam
    THEN DOMAIN ns
    ELSE IF PyInt(medication_id).ok
    THEN {n \in DOMAIN ns : ns[n].medication = PyInt(medication_id).value}
    ELSE DOMAIN ns

\* a get_queryset that ignores the medication parameter
NoteViewSet_get_queryset_Unfiltered(ns, medication_id) == DOMAIN ns

\* NoteViewSet.get_queryset: the ids of the notes the request works on
NoteViewSet_get_queryset(ns, medication_id) ==
    IF medication_id = NoParam
    THEN DOMAIN ns
    ELSE IF PyInt(medication_id).ok
    THEN {n \in DOMAIN ns : ns[n].medication = PyInt(medication_id).value}
    ELSE {}

\* ------------------------------------------------- requests in flight
\* The server threads that handle requests side by side, and the state of
\* a thread that handles none.
Workers == {"w1", "w2"}

Idle == [pc |-> "idle"]

\* ----------------------------------------------------------------- state
Init ==
    /\ medications = <<>>
    /\ nextMedId = 1
    /\ doseLogs = <<>>
    /\ nextLogId = 1
    /\ notes = <<>>
    /\ nextNoteId = 1
    /\ today = 0
    /\ out = [op |-> "none"]
    /\ inflight = [w \in Workers |-> Idle]

\* POST /medications/
CreateMedication(name, prescribed_per_day) ==
    /\ nextMedId <= MaxMedId
    /\ IF prescribed_per_day < 0
       THEN /\ out' = [op |-> "create-medication", status |-> 400]
            /\ UNCHANGED <<medications, nextMedId>>
       ELSE /\ medications' =
                 [i \in DOMAIN medications \cup {nextMedId} |->
                     IF i = nextMedId
                     THEN [name |-> name,
                           prescribed_per_day |-> prescribed_per_day]
                     ELSE medications[i]]
            /\ nextMedId' = nextMedId + 1
            /\ out' = [op |-> "create-medication", status |-> 201, pk |-> nextMedId]
    /\ UNCHANGED <<doseLogs, nextLogId, notes, nextNoteId, today, inflight>>

\* PUT /medications/{pk}/
UpdateMedication(pk, name, prescribed_per_day) ==
    /\ IF pk \notin DOMAIN medications
       THEN /\ out' = [op |-> "update-medication", status |-> 404, pk |-> pk]
            /\ UNCHANGED medications
       ELSE IF prescribed_per_day < 0
       THEN /\ out' = [op |-> "update-medication", status |-> 400, pk |-> pk]
            /\ UNCHANGED medications
       ELSE /\ medications' =
                 [medications EXCEPT ![pk] =
                     [name |-> name, prescribed_per_day |-> prescribed_per_day]]
            /\ out' = [op |-> "update-medication", status |-> 200, pk |-> pk]
    /\ UNCHANGED <<nextMedId, doseLogs, nextLogId, notes, nextNoteId, today,
                   inflight>>

\* the dose logs (or the notes) left when medication pk is deleted
CascadeDelete(logs, pk) ==
    [l \in {x \in DOMAIN logs : logs[x].medication # pk} |-> logs[l]]

\* a delete that removes the medication and nothing else
DeleteMedication_KeepsReferences(pk) ==
    /\ IF pk \notin DOMAIN medications
       THEN /\ out' = [op |-> "delete-medication", status |-> 404, pk |-> pk]
            /\ UNCHANGED <<medications, doseLogs, notes>>
       ELSE /\ medications' = [i \in DOMAIN medications \ {pk} |-> medications[i]]
            /\ UNCHANGED <<doseLogs, notes>>
            /\ out' = [op |-> "delete-medication", status |-> 204, pk |-> pk]
    /\ UNCHANGED <<nextMedId, nextLogId, nextNoteId, today, inflight>>

\* DELETE /medications/{pk}/
DeleteMedication(pk) ==
    /\ IF pk \notin DOMAIN medications
       THEN /\ out' = [op |-> "delete-medication", status |-> 404, pk |-> pk]
            /\ UNCHANGED <<medications, doseLogs, notes>>
       ELSE /\ medications' = [i \in DOMAIN medications \ {pk} |-> medications[i]]
            /\ doseLogs' = CascadeDelete(doseLogs, pk)
            /\ notes' = CascadeDelete(notes, pk)
            /\ out' = [op |-> "delete-medication", status |-> 204, pk |-> pk]
    /\ UNCHANGED <<nextMedId, nextLogId, nextNoteId, today, inflight>>

\* POST /logs/
CreateDoseLog(data) ==
    /\ nextLogId <= MaxLogId
    /\ LET errors == DoseLogSerializer_errors(medications, data, FALSE)
       IN  IF DOMAIN errors # {}
           THEN /\ out' = [op |-> "create-log", data |-> data, status |-> 400,
                           body |-> errors]
                /\ UNCHANGED <<doseLogs, nextLogId>>
           ELSE /\ doseLogs' =
                     [l \in DOMAIN doseLogs \cup {nextLogId} |->
                         IF l = nextLogId
                         THEN [medication |-> data.medication,
                               taken_at |-> data.taken_at,
                               was_taken |-> data.was_taken]
                         ELSE doseLogs[l]]
                /\ nextLogId' = nextLogId + 1
                /\ out' = [op |-> "create-log", data |-> data, status |-> 201,
                           pk |-> nextLogId]
    /\ UNCHANGED <<medications, nextMedId, notes, nextNoteId, today, inflight>>

\* PATCH /logs/{pk}/ with one field; PUT is the three patches in a row
UpdateDoseLog(pk, field, value) ==
    /\ IF pk \notin DOMAIN doseLogs
       THEN /\ out' = [op |-> "update-log", status |-> 404, pk |-> pk]
            /\ UNCHANGED doseLogs
       ELSE IF field = "medication" /\ value \notin DOMAIN medications
       THEN /\ out' = [op |-> "update-log", status |-> 400, pk |-> pk]
            /\ UNCHANGED doseLogs
       ELSE /\ doseLogs' = [doseLogs EXCEPT ![pk][field] = value]
            /\ out' = [op |-> "update-log", status |-> 200, pk |-> pk]
    /\ UNCHANGED <<medications, nextMedId, nextLogId, notes, nextNoteId, today,
                   inflight>>

\* DELETE /logs/{pk}/
DeleteDoseLog(pk) ==
    /\ IF pk \notin DOMAIN doseLogs
       THEN /\ out' = [op |-> "delete-log", status |-> 404, pk |-> pk]
            /\ UNCHANGED doseLogs
       ELSE /\ doseLogs' = [l \in DOMAIN doseLogs \ {pk} |-> doseLogs[l]]
            /\ out' = [op |-> "delete-log", status |-> 204, pk |-> pk]
    /\ UNCHANGED <<medications, nextMedId, nextLogId, notes, nextNoteId, today,
                   inflight>>

\* GET /medications/{pk}/expected-doses/?days=...
ExpectedDosesRequest(pk, days_param) ==
    /\ out' = MedicationViewSet_expected_doses(medications, pk, days_param)
    /\ UNCHANGED <<medications, nextMedId, doseLogs, nextLogId, notes,
                   nextNoteId, today,
                   inflight>>

\* med.expected_doses(days) on a loaded medication whose prescribed_per_day
\* attribute holds p (the stored value, or one assigned in memory)
CallExpectedDoses(pk, p, days) ==
    /\ pk \in DOMAIN medications
    /\ p > 0 => p = medications[pk].prescribed_per_day
    /\ out' = [op |-> "expected_doses", pk |-> pk, prescribed_per_day |-> p,
               days |-> days,
               result |-> Medication_expected_doses(p, days)]
    /\ UNCHANGED <<medications, nextMedId, doseLogs, nextLogId, notes,
                   nextNoteId, today,
                   inflight>>

\* med.adherence_rate() on a stored medication
CallAdherenceRate(pk) ==
    /\ pk \in DOMAIN medications
    /\ out' = [op |-> "adherence_rate", pk |-> pk,
               value |-> Medication_adherence_rate(doseLogs, pk)]
    /\ UNCHANGED <<medications, nextMedId, doseLogs, nextLogId, notes,
                   nextNoteId, today,
                   inflight>>

\* med.adherence_rate_over_period(start_date, end_date) on a stored medication
CallAdherenceRateOverPeriod(pk, start_date, end_date) ==
    /\ pk \in DOMAIN medications
    /\ out' = [op |-> "adherence_rate_over_period", pk |-> pk,
               start_date |-> start_date, end_date |-> end_date,
               result |-> Medication_adherence_rate_over_period(
                              medications[pk].prescribed_per_day, doseLogs, pk,
                              start_date, end_date)]
    /\ UNCHANGED <<medications, nextMedId, doseLogs, nextLogId, notes,
                   nextNoteId, today,
                   inflight>>

\* an info request that keeps what it fetched on the medication
ExternalInfoRequest_StoresResult(pk, reply) ==
    /\ out' = MedicationViewSet_get_external_info(medications, pk, reply)
    /\ medications' =
          IF pk \in DOMAIN medications
          THEN [medications EXCEPT ![pk].name =
                   IF out'.status = 200 THEN "Paracetamol" ELSE "Unknown"]
          ELSE medications
    /\ UNCHANGED <<nextMedId, doseLogs, nextLogId, notes, nextNoteId, today,
                   inflight>>

\* GET /medications/{pk}/info/
ExternalInfoRequest(pk, reply) ==
    /\ out' = MedicationViewSet_get_external_info(medications, pk, reply)
    /\ UNCHANGED <<medications, nextMedId, doseLogs, nextLogId, notes,
                   nextNoteId, today,
                   inflight>>

\* GET /logs/filter/?start=...&end=...
FilterByDate(start_str, end_str) ==
    /\ out' \in DoseLogViewSet_filter_by_date(doseLogs, start_str, end_str)
    /\ UNCHANGED <<medications, nextMedId, doseLogs, nextLogId, notes,
                   nextNoteId, today,
                   inflight>>

\* GET /logs/: DoseLog.objects.all() in the default ordering
ListDoseLogs ==
    /\ \E listing \in DoseLog_Meta_ordering(doseLogs, DOMAIN doseLogs) :
          out' = [op |-> "list-logs", status |-> 200,
                  body |-> DoseLogSerializer(doseLogs, listing)]
    /\ UNCHANGED <<medications, nextMedId, doseLogs, nextLogId, notes,
                   nextNoteId, today,
                   inflight>>

\* GET /medications/{pk}/
RetrieveMedication(pk) ==
    /\ IF pk \notin DOMAIN medications
       THEN out' = [op |-> "retrieve-medication", status |-> 404, pk |-> pk]
       ELSE out' = [op |-> "retrieve-medication", status |-> 200, pk |-> pk,
                    body |-> MedicationSerializer(medications, doseLogs, pk)]
    /\ UNCHANGED <<medications, nextMedId, doseLogs, nextLogId, notes,
                   nextNoteId, today,
                   inflight>>

\* PATCH /medications/{pk}/ with some fields
PatchMedication(pk, data) ==
    /\ IF pk \notin DOMAIN medications
       THEN /\ out' = [op |-> "patch-medication", status |-> 404, pk |-> pk,
                       data |-> data]
            /\ UNCHANGED medications
       ELSE /\ medications' =
                 [medications EXCEPT ![pk] =
                     MedicationSerializer_validated_data(data) @@ medications[pk]]
            /\ out' = [op |-> "patch-medication", status |-> 200, pk |-> pk,
                       data |-> data,
                       body |-> MedicationSerializer(medications', doseLogs, pk)]
    /\ UNCHANGED <<nextMedId, doseLogs, nextLogId, notes, nextNoteId, today,
                   inflight>>

\* GET /logs/{pk}/
RetrieveDoseLog(pk) ==
    /\ IF pk \notin DOMAIN doseLogs
       THEN out' = [op |-> "retrieve-log", status |-> 404, pk |-> pk]
       ELSE out' = [op |-> "retrieve-log", status |-> 200, pk |-> pk,
                    body |-> DoseLogSerializer(doseLogs, << pk >>)[1]]
    /\ UNCHANGED <<medications, nextMedId, doseLogs, nextLogId, notes,
                   nextNoteId, today,
                   inflight>>

\* POST /notes/
CreateNote(data) ==
    /\ nextNoteId <= MaxNoteId
    /\ LET errors == NoteSerializer_errors(medications, today, data, FALSE)
       IN  IF DOMAIN errors # {}
           THEN /\ out' = [op |-> "create-note", data |-> data, status |-> 400,
                           body |-> errors]
                /\ UNCHANGED <<notes, nextNoteId>>
           ELSE /\ notes' =
                     [n \in DOMAIN notes \cup {nextNoteId} |->
                         IF n = nextNoteId
                         THEN [medication |-> data.medication,
                               text |-> data.text, date |-> data.date]
                         ELSE notes[n]]
                /\ nextNoteId' = nextNoteId + 1
                /\ out' = [op |-> "create-note", data |-> data, status |-> 201,
                           pk |-> nextNoteId]
    /\ UNCHANGED <<medications, nextMedId, doseLogs, nextLogId, today, inflight>>

\* GET /notes/ and GET /notes/?medication=...
ListNotes(medication_id) ==
    /\ out' = [op |-> "list-notes", param |-> medication_id, status |-> 200,
               body |-> {NoteSerializer(notes, n) :
                            n \in NoteViewSet_get_queryset(notes, medication_id)}]
    /\ UNCHANGED <<medications, nextMedId, doseLogs, nextLogId, notes,
                   nextNoteId, today,
                   inflight>>

\* GET /notes/{pk}/, with or without ?medication=...
RetrieveNote(pk, medication_id) ==
    /\ IF pk \notin NoteViewSet_get_queryset(notes, medication_id)
       THEN out' = [op |-> "retrieve-note", status |-> 404, pk |-> pk,
                    param |-> medication_id]
       ELSE out' = [op |-> "retrieve-note", status |-> 200, pk |-> pk,
                    param |-> medication_id, body |-> NoteSerializer(notes, pk)]
    /\ UNCHANGED <<medications, nextMedId, doseLogs, nextLogId, notes,
                   nextNoteId, today,
                   inflight>>

\* PUT or PATCH /notes/{pk}/: dispatch answers 405 for a method that is not
\* in http_method_names; a method that is goes on to ModelViewSet.update
UpdateNote(method, pk, data) ==
    /\ IF method \notin NoteViewSet_http_method_names
       THEN /\ out' = [op |-> "update-note", method |-> method, status |-> 405,
                       pk |-> pk]
            /\ UNCHANGED notes
       ELSE IF pk \notin DOMAIN notes
       THEN /\ out' = [op |-> "update-note", method |-> method, status |-> 404,
                       pk |-> pk]
            /\ UNCHANGED notes
       ELSE IF DOMAIN NoteSerializer_errors(medications, today, data,
                                            method = "patch") # {}
       THEN /\ out' = [op |-> "update-note", method |-> method, status |-> 400,
                       pk |-> pk]
            /\ UNCHANGED notes
       ELSE /\ notes' = [notes EXCEPT ![pk] = data @@ notes[pk]]
            /\ out' = [op |-> "update-note", method |-> method, status |-> 200,
                       pk |-> pk]
    /\ UNCHANGED <<medications, nextMedId, doseLogs, nextLogId, nextNoteId,
                   today,
                   inflight>>

\* a delete that looks the note up among all notes
DeleteNote_Unscoped(pk, medication_id) ==
    /\ IF pk \notin DOMAIN notes
       THEN /\ out' = [op |-> "delete-note", status |-> 404, pk |-> pk,
                       param |-> medication_id]
            /\ UNCHANGED notes
       ELSE /\ notes' = [n \in DOMAIN notes \ {pk} |-> notes[n]]
            /\ out' = [op |-> "delete-note", status |-> 204, pk |-> pk,
                       param |-> medication_id]
    /\ UNCHANGED <<medications, nextMedId, doseLogs, nextLogId, nextNoteId,
                   today, inflight>>

\* a delete that answers 204 and keeps the note
DeleteNote_KeepsNote(pk, medication_id) ==
    /\ IF pk \notin NoteViewSet_get_queryset(notes, medication_id)
       THEN /\ out' = [op |-> "delete-note", status |-> 404, pk |-> pk,
                       param |-> medication_id]
            /\ UNCHANGED notes
       ELSE /\ UNCHANGED notes
            /\ out' = [op |-> "delete-note", status |-> 204, pk |-> pk,
                       param |-> medication_id]
    /\ UNCHANGED <<medications, nextMedId, doseLogs, nextLogId, nextNoteId,
                   today,
                   inflight>>

\* DELETE /notes/{pk}/, with or without ?medication=...
DeleteNote(pk, medication_id) ==
    /\ IF pk \notin NoteViewSet_get_queryset(notes, medication_id)
       THEN /\ out' = [op |-> "delete-note", status |-> 404, pk |-> pk,
                       param |-> medication_id]
            /\ UNCHANGED notes
       ELSE /\ notes' = [n \in DOMAIN notes \ {pk} |-> notes[n]]
            /\ out' = [op |-> "delete-note", status |-> 204, pk |-> pk,
                       param |-> medication_id]
    /\ UNCHANGED <<medications, nextMedId, doseLogs, nextLogId, nextNoteId,
                   today,
                   inflight>>

\* midnight passes: timezone.now().date() moves on by a day
Tick ==
    /\ today < DateOf(MaxTime)
    /\ today' = today + 1
    /\ out' = [op |-> "tick"]
    /\ UNCHANGED <<medications, nextMedId, doseLogs, nextLogId, notes,
                   nextNoteId,
                   inflight>>

\* A GET of a detail route of MedicationViewSet reaches thread w: as_view
\* builds a view instance of its own for the request
Receive(w, op, pk, days_param) ==
    /\ inflight[w] = Idle
    /\ inflight' = [inflight EXCEPT ![w] =
                       [pc |-> "received", op |-> op, pk |-> pk,
                        param |-> days_param]]
    /\ UNCHANGED <<medications, nextMedId, doseLogs, nextLogId, notes,
                   nextNoteId, today, out>>

\* what a response repeats of its request
RequestEcho(req) ==
    IF req.op = "expected-doses"
    THEN [op |-> req.op, pk |-> req.pk, param |-> req.param]
    ELSE [op |-> req.op, pk |-> req.pk]

\* the days gate, which only expected_doses has
DaysGate(req) ==
    IF req.op = "expected-doses"
    THEN validate_days_parameter(req.param)
    ELSE [rejected |-> FALSE, status |-> 0, error |-> None, steps |-> << >>,
          days |-> None]

\* a view whose loaded medication is an attribute every thread shares
LoadMedication_SharedInstance(w) ==
    /\ inflight[w].pc = "received"
    /\ LET req  == inflight[w]
           v    == DaysGate(req)
           medication == get_object(medications, req.pk)
       IN  IF v.rejected
           THEN /\ out' = RequestEcho(req)
                               @@ [status |-> v.status,
                                   body |-> [error |-> v.error],
                                   steps |-> v.steps]
                /\ inflight' = [inflight EXCEPT ![w] = Idle]
           ELSE IF ~medication.found
           THEN /\ out' = RequestEcho(req)
                               @@ [status |-> 404,
                                   body |-> [detail |-> "Not found."]]
                               @@ IF req.op = "expected-doses"
                                  THEN [steps |-> v.steps \o <<"get_object">>]
                                  ELSE [calls |-> << >>]
                /\ inflight' = [inflight EXCEPT ![w] = Idle]
           ELSE /\ inflight' =
                     [x \in Workers |->
                         IF x = w
                         THEN [pc |-> "loaded", op |-> req.op,
                               pk |-> req.pk, param |-> req.param,
                               days |-> v.days, medication |-> medication]
                         ELSE IF inflight[x].pc = "loaded"
                         THEN [inflight[x] EXCEPT !.medication = medication]
                         ELSE inflight[x]]
                /\ UNCHANGED out
    /\ UNCHANGED <<medications, nextMedId, doseLogs, nextLogId, notes,
                   nextNoteId, today>>

\* Thread w runs its handler up to and including self.get_object(): the
\* days gate of expected_doses, then the one read of the medication. A
\* rejected parameter and an unknown key are answered at once.
LoadMedication(w) ==
    /\ inflight[w].pc = "received"
    /\ LET req  == inflight[w]
           v    == DaysGate(req)
           medication == get_object(medications, req.pk)
       IN  IF v.rejected
           THEN /\ out' = RequestEcho(req)
                               @@ [status |-> v.status,
                                   body |-> [error |-> v.error],
                                   steps |-> v.steps]
                /\ inflight' = [inflight EXCEPT ![w] = Idle]
           ELSE IF ~medication.found
           THEN /\ out' = RequestEcho(req)
                               @@ [status |-> 404,
                                   body |-> [detail |-> "Not found."]]
                               @@ IF req.op = "expected-doses"
                                  THEN [steps |-> v.steps \o <<"get_object">>]
                                  ELSE [calls |-> << >>]
                /\ inflight' = [inflight EXCEPT ![w] = Idle]
           ELSE /\ inflight' = [inflight EXCEPT ![w] =
                                   [pc |-> "loaded", op |-> req.op,
                                    pk |-> req.pk, param |-> req.param,
                                    days |-> v.days,
                                    medication |-> medication]]
                /\ UNCHANGED out
    /\ UNCHANGED <<medications, nextMedId, doseLogs, nextLogId, notes,
                   nextNoteId, today>>

\* Thread w runs the rest of its handler on the medication it loaded: the
\* calculator for expected_doses, the collaborator (answering as `reply`)
\* for get_external_info, then the Response.
Respond(w, reply) ==
    /\ inflight[w].pc = "loaded"
    /\ LET req == inflight[w]
           base == RequestEcho(req)
       IN  IF req.op = "expected-doses"
           THEN LET r == Medication_expected_doses(
                             req.medication.prescribed_per_day, req.days)
                    s == DaysGate(req).steps
                         \o <<"get_object", "expected_doses">>
                IN  out' = IF r.raised
                           THEN base @@ ValueErrorResponse(r.error)
                                     @@ [steps |-> s]
                           ELSE base @@ SuccessResponse(req.medication,
                                                        req.days, r.value)
                                     @@ [steps |-> s]
           ELSE LET fetched == Medication_fetch_external_info(
                                   req.medication.name, reply)
                IN  out' = base @@ [reply |-> reply]
                                @@ ExternalInfoResponse(fetched.data)
                                @@ [calls |-> fetched.calls]
    /\ inflight' = [inflight EXCEPT ![w] = Idle]
    /\ UNCHANGED <<medications, nextMedId, doseLogs, nextLogId, notes,
                   nextNoteId, today>>

\* Medications and their schedule: the CRUD of MedicationViewSet, its
\* expected-doses endpoint, and direct calls of Medication.expected_doses.
\* None of them reads a dose log.
Next ==
    \/ \E n \in Names, p \in -1..MaxPerDay : CreateMedication(n, p)
    \/ \E pk \in MedIds, n \in Names, p \in -1..MaxPerDay :
          UpdateMedication(pk, n, p)
    \/ \E pk \in MedIds : DeleteMedication(pk)
    \/ \E pk \in MedIds, d \in DaysParams : ExpectedDosesRequest(pk, d)
    \/ \E pk \in MedIds, p \in -1..MaxPerDay, d \in -2..MaxDays :
          CallExpectedDoses(pk, p, d)

Spec == Init /\ [][Next]_vars

\* the bodies of POST /logs/: complete, or lacking the medication or the
\* timestamp
LogRequests ==
    [medication : MedIds, taken_at : Times, was_taken : BOOLEAN]
    \cup [taken_at : Times, was_taken : BOOLEAN]
    \cup [medication : MedIds, was_taken : BOOLEAN]

\* The record store as the API builds it: the CRUD of MedicationViewSet and
\* of DoseLogViewSet
NextStore ==
    \/ \E n \in Names, p \in -1..MaxPerDay : CreateMedication(n, p)
    \/ \E pk \in MedIds, n \in Names, p \in -1..MaxPerDay :
          UpdateMedication(pk, n, p)
    \/ \E pk \in MedIds : DeleteMedication(pk)
    \/ \E data \in LogRequests : CreateDoseLog(data)
    \/ \E pk \in LogIds :
          \/ \E m \in MedIds : UpdateDoseLog(pk, "medication", m)
          \/ \E t \in Times : UpdateDoseLog(pk, "taken_at", t)
          \/ \E w \in BOOLEAN : UpdateDoseLog(pk, "was_taken", w)
    \/ \E pk \in LogIds : DeleteDoseLog(pk)

SpecStore == Init /\ [][NextStore]_vars

\* The adherence calculator on its own: a store the API can build, holding
\* the medication whose method is called and one other medication, then one
\* direct call of an adherence method of the Medication model.
CalcMedIds == {1, 2}

LogRecords == [medication : CalcMedIds, taken_at : Times, was_taken : BOOLEAN]

InitCalc ==
    /\ medications \in [CalcMedIds -> [name : {"Aspirin"},
                                        prescribed_per_day : PerDays]]
    /\ nextMedId = 3
    /\ \E ls \in SUBSET (1..MaxCalcLogs) : doseLogs \in [ls -> LogRecords]
    /\ nextLogId = MaxCalcLogs + 1
    /\ notes = <<>>
    /\ nextNoteId = 1
    /\ today = 0
    /\ out = [op |-> "none"]
    /\ inflight = [w \in Workers |-> Idle]

\* one call per loaded store: a call reads the store and returns
Loaded == out.op = "none"

NextCalc ==
    \/ \E pk \in CalcMedIds : Loaded /\ CallAdherenceRate(pk)
    \/ \E pk \in CalcMedIds, s \in Dates, e \in Dates :
          Loaded /\ CallAdherenceRateOverPeriod(pk, s, e)

SpecCalc == InitCalc /\ [][NextCalc]_vars

\* Medications and the external lookup: the CRUD of MedicationViewSet and
\* its info endpoint, the collaborator answering each request in any of the
\* ways of Replies.
NextInfo ==
    \/ \E n \in Names, p \in PerDays : CreateMedication(n, p)
    \/ \E pk \in MedIds, n \in Names, p \in PerDays : UpdateMedication(pk, n, p)
    \/ \E pk \in MedIds : DeleteMedication(pk)
    \/ \E pk \in MedIds, reply \in Replies : ExternalInfoRequest(pk, reply)

SpecInfo == Init /\ [][NextInfo]_vars

\* Queries of the dose logs: a store of logs the API can build, then one
\* listing or one date filter.
InitLogs ==
    /\ medications = [i \in CalcMedIds |->
                         [name |-> "Aspirin", prescribed_per_day |-> 1]]
    /\ nextMedId = 3
    /\ \E ls \in SUBSET (1..MaxCalcLogs) :
          doseLogs \in [ls -> LogRecords]
    /\ nextLogId = MaxCalcLogs + 1
    /\ notes = <<>>
    /\ nextNoteId = 1
    /\ today = 0
    /\ out = [op |-> "none"]
    /\ inflight = [w \in Workers |-> Idle]

NextLogs ==
    \/ \E s \in DateParams, e \in DateParams : Loaded /\ FilterByDate(s, e)
    \/ Loaded /\ ListDoseLogs
    \/ \E pk \in CalcMedIds, s \in Dates, e \in Dates :
          Loaded /\ CallAdherenceRateOverPeriod(pk, s, e)

SpecLogs == InitLogs /\ [][NextLogs]_vars

\* Notes: two stored medications, the requests of NoteViewSet, and the
\* server clock.
Texts == {"Take with food", "Existing note"}

NewTexts == {"Updated text"}

NoteRequests ==
    [medication : MedIds, text : Texts, date : Dates]
    \cup [text : Texts, date : Dates]
    \cup [text : Texts]

NoteUpdates ==
    [medication : MedIds, text : NewTexts, date : Dates] \cup [text : NewTexts]

NoteParams == { NoParam, <<"1">>, <<"2">>, <<"a", "b", "c">> }

\* a listing is also asked for with an empty medication=
NoteListParams == NoteParams \cup { << >> }

InitNotes ==
    /\ medications = [i \in MedIds |->
                         [name |-> "Aspirin", prescribed_per_day |-> 1]]
    /\ nextMedId = MaxMedId + 1
    /\ doseLogs = <<>>
    /\ nextLogId = 1
    /\ notes = <<>>
    /\ nextNoteId = 1
    /\ today = 0
    /\ out = [op |-> "none"]
    /\ inflight = [w \in Workers |-> Idle]

NextNotes ==
    \/ \E data \in NoteRequests : CreateNote(data)
    \/ \E m \in {"put", "patch"}, pk \in NoteIds, data \in NoteUpdates :
          UpdateNote(m, pk, data)
    \/ \E pk \in NoteIds, p \in NoteParams : DeleteNote(pk, p)
    \/ \E pk \in NoteIds, p \in NoteParams : RetrieveNote(pk, p)
    \/ \E p \in NoteListParams : ListNotes(p)
    \/ Tick

SpecNotes == InitNotes /\ [][NextNotes]_vars

\* The three viewsets together, on records of one shape: the store changes
\* by which records exist and which medication a log or a note references.
WithinBudget ==
    (nextMedId - 1) + (nextLogId - 1) + (nextNoteId - 1) < MaxRecords

FewLogRequests ==
    [medication : MedIds, taken_at : {0}, was_taken : {TRUE}]
    \cup [taken_at : {0}, was_taken : {TRUE}]

FewNoteRequests ==
    [medication : MedIds, text : {"Take with food"}, date : {0}]
    \cup [text : {"Take with food"}, date : {0}]

NextRecords ==
    \/ WithinBudget /\ CreateMedication("Aspirin", 1)
    \/ \E pk \in MedIds : UpdateMedication(pk, "Aspirin", 1)
    \/ \E pk \in MedIds : RetrieveMedication(pk)
    \/ \E pk \in MedIds : DeleteMedication(pk)
    \/ \E data \in FewLogRequests : WithinBudget /\ CreateDoseLog(data)
    \/ \E pk \in LogIds, m \in MedIds : UpdateDoseLog(pk, "medication", m)
    \/ \E pk \in LogIds : RetrieveDoseLog(pk)
    \/ \E pk \in LogIds : DeleteDoseLog(pk)
    \/ \E data \in FewNoteRequests : WithinBudget /\ CreateNote(data)
    \/ \E m \in {"put", "patch"}, pk \in NoteIds, data \in NoteUpdates :
          UpdateNote(m, pk, data)
    \/ \E pk \in NoteIds, p \in {NoParam, <<"1">>} : RetrieveNote(pk, p)
    \/ \E pk \in NoteIds, p \in {NoParam, <<"1">>} : DeleteNote(pk, p)

SpecRecords == Init /\ [][NextRecords]_vars

\* Requests side by side: each thread takes a request of a derived endpoint
\* of MedicationViewSet and handles it in two steps, while medications are
\* renamed, rescheduled and deleted between the steps.
FewDaysParams == { <<"2">>, <<"a", "b", "c">> }

FewReplies == { [kind |-> "return", payload |-> InfoRecord],
                [kind |-> "return", payload |-> RateLimitPayload] }

InitConcurrent ==
    /\ medications = [i \in MedIds |->
                         [name |-> "Aspirin", prescribed_per_day |-> 1]]
    /\ nextMedId = MaxMedId + 1
    /\ doseLogs = <<>>
    /\ nextLogId = 1
    /\ notes = <<>>
    /\ nextNoteId = 1
    /\ today = 0
    /\ out = [op |-> "none"]
    /\ inflight = [w \in Workers |-> Idle]

NextConcurrent ==
    \/ \E w \in Workers, pk \in MedIds, d \in FewDaysParams :
          Receive(w, "expected-doses", pk, d)
    \/ \E w \in Workers, pk \in MedIds : Receive(w, "info", pk, NoParam)
    \/ \E w \in Workers : LoadMedication(w)
    \/ \E w \in Workers, reply \in FewReplies : Respond(w, reply)
    \/ \E pk \in MedIds : UpdateMedication(pk, "Paracetamol", 2)
    \/ \E pk \in MedIds : DeleteMedication(pk)

SpecConcurrent == InitConcurrent /\ [][NextConcurrent]_vars

\* Adherence as the API reports it: two stored medications, the writes of
\* DoseLogViewSet, and reads and patches of a medication.
TakenOrMissed == [medication : MedIds, taken_at : {0}, was_taken : BOOLEAN]

MedicationPatches ==
    { [adherence |-> Frac(100, 1)],
      [name |-> "Paracetamol", adherence |-> Zero] }

NextAdherence ==
    \/ \E data \in TakenOrMissed : CreateDoseLog(data)
    \/ \E pk \in LogIds, m \in MedIds : UpdateDoseLog(pk, "medication", m)
    \/ \E pk \in LogIds, w \in BOOLEAN : UpdateDoseLog(pk, "was_taken", w)
    \/ \E pk \in LogIds : DeleteDoseLog(pk)
    \/ \E pk \in MedIds : RetrieveMedication(pk)
    \/ \E pk \in MedIds, data \in MedicationPatches : PatchMedication(pk, data)

SpecAdherence == InitNotes /\ [][NextAdherence]_vars

\* The derived endpoints on a store that holds records of all three kinds:
\* the creates and deletes that build the store, and the three GETs.
FewDateParams == { NoParam, <<"a", "b", "c">>, DateString(0), DateString(1) }

NextDerived ==
    \/ WithinBudget /\ CreateMedication("Aspirin", 1)
    \/ \E pk \in MedIds : DeleteMedication(pk)
    \/ \E data \in FewLogRequests : WithinBudget /\ CreateDoseLog(data)
    \/ \E data \in FewNoteRequests : WithinBudget /\ CreateNote(data)
    \/ \E pk \in MedIds, d \in FewDaysParams : ExpectedDosesRequest(pk, d)
    \/ \E pk \in MedIds, reply \in FewReplies : ExternalInfoRequest(pk, reply)
    \/ \E s \in FewDateParams, e \in FewDateParams : FilterByDate(s, e)

SpecDerived == Init /\ [][NextDerived]_vars

\* ================================================================ claims
Range(seq) == {seq[i] : i \in DOMAIN seq}

\* The days strings of DaysParams, classified by hand.
NotIntegerParams  == { <<>>, <<"a", "b", "c">>, <<"7", ".", "5">>, <<"-">> }
NonPositiveParams == { <<"0">>, <<"-", "5">>, <<"-", "0">> }
ValidParams       == { <<"7">>, <<"+", "2">>, <<" ", "3">> }

IntendedDays(param) ==
    CASE param = <<"7">>      -> 7
      [] param = <<"+", "2">> -> 2
      [] param = <<" ", "3">> -> 3

IsExpectedDosesResponse == out.op = "expected-doses"
GatePassed == IsExpectedDosesResponse /\ out.param \in ValidParams

\* this medication's logs, its taken logs, and its taken logs dated in a range
LogsOf(pk)  == {l \in DOMAIN doseLogs : doseLogs[l].medication = pk}
TakenOf(pk) == {l \in LogsOf(pk) : doseLogs[l].was_taken}
TakenIn(pk, s, e) ==
    {l \in TakenOf(pk) : s <= DateOf(doseLogs[l].taken_at)
                         /\ DateOf(doseLogs[l].taken_at) <= e}

\* the rate r equals n / d
RateIs(r, n, d) == r.num * d = n * r.den

\* C1: for prescribed_per_day > 0 and days > 0, expected_doses(days) is
\* exactly days * prescribed_per_day, and the expected-doses endpoint answers
\* 200 with {medication_id: the medication's id, days: the parsed integer,
\* expected_doses: days * prescribed_per_day}.
C1_ExpectedDosesIsDaysTimesSchedule ==
    /\ (/\ out.op = "expected_doses"
        /\ out.prescribed_per_day > 0
        /\ out.days > 0)
       => /\ ~out.result.raised
          /\ out.result.value = out.days * out.prescribed_per_day
    /\ (/\ GatePassed
        /\ out.pk \in DOMAIN medications
        /\ medications[out.pk].prescribed_per_day > 0)
       => /\ out.status = 200
          /\ out.body =
               [medication_id |-> out.pk,
                days |-> IntendedDays(out.param),
                expected_doses |->
                    IntendedDays(out.param)
                    * medications[out.pk].prescribed_per_day]

\* 2 per day over "7" days: 14
C1_Witness ==
    /\ IsExpectedDosesResponse
    /\ out.param = <<"7">>
    /\ out.status = 200
    /\ out.pk \in DOMAIN medications
    /\ medications[out.pk].prescribed_per_day = 2
    /\ out.body.expected_doses = 14

C3_ZeroDaysYieldsZero ==
    (out.op = "expected_doses" /\ out.prescribed_per_day > 0)
    => /\ out.days = 0 => (~out.result.raised /\ out.result.value = 0)
       /\ out.days < 0 => out.result.raised

C3_Witness ==
    /\ out.op = "expected_doses"
    /\ out.prescribed_per_day > 0
    /\ out.days = 0
    /\ ~out.result.raised
    /\ out.result.value = 0

\* C4: adherence_rate() is 100 * K / N for a medication with N > 0 logs of
\* which K are taken, and 0.0 when it has no logs; logs of other medications
\* enter neither K nor N.
C4_AdherenceRateIsTakenOverLogged ==
    out.op = "adherence_rate"
    => LET N == Cardinality(LogsOf(out.pk))
           K == Cardinality(TakenOf(out.pk))
       IN  IF N = 0
           THEN out.value = [num |-> 0, den |-> 1]
           ELSE RateIs(out.value, 100 * K, N)

\* one taken log of this medication, one missed log of another: 100.0
C4_Witness ==
    /\ out.op = "adherence_rate"
    /\ Cardinality(LogsOf(out.pk)) = 1
    /\ Cardinality(TakenOf(out.pk)) = 1
    /\ \E l \in DOMAIN doseLogs :
          doseLogs[l].medication # out.pk /\ ~doseLogs[l].was_taken
    /\ out.value = [num |-> 100, den |-> 1]

IsPeriodResult  == out.op = "adherence_rate_over_period"
PeriodSchedule  == medications[out.pk].prescribed_per_day

\* C5: adherence_rate_over_period fails with the invalid-range error for
\* every start_date > end_date, whatever the schedule and the logs; a range
\* with start_date = end_date is valid and counts as 1 day.
C5_InvertedRangeRejected ==
    IsPeriodResult
    => /\ out.start_date > out.end_date
          => /\ out.result.raised
             /\ out.result.error = InvalidRangeMessage
       /\ out.start_date = out.end_date
          => /\ ~out.result.raised
             /\ PeriodSchedule > 0
                => RateIs(out.result.value,
                          100 * Cardinality(TakenIn(out.pk, out.start_date,
                                                    out.end_date)),
                          1 * PeriodSchedule)

\* an inverted range on an unscheduled medication that has logs
C5_Witness ==
    /\ IsPeriodResult
    /\ out.start_date > out.end_date
    /\ PeriodSchedule = 0
    /\ LogsOf(out.pk) # {}
    /\ out.result.raised
    /\ out.result.error = InvalidRangeMessage

\* C6: for a valid range and prescribed_per_day = 0,
\* adherence_rate_over_period returns 0.0 and raises nothing, also with taken
\* logs inside the range.
C6_UnscheduledPeriodIsZero ==
    (/\ IsPeriodResult
     /\ out.start_date <= out.end_date
     /\ PeriodSchedule = 0)
    => /\ ~out.result.raised
       /\ out.result.value = [num |-> 0, den |-> 1]

C6_Witness ==
    /\ IsPeriodResult
    /\ out.start_date <= out.end_date
    /\ PeriodSchedule = 0
    /\ TakenIn(out.pk, out.start_date, out.end_date) # {}
    /\ ~out.result.raised

\* C7: for a valid range and prescribed_per_day > 0,
\* adherence_rate_over_period is 100 * T / (D * prescribed_per_day), with
\* D = (end_date - start_date) + 1 and T the medication's taken logs dated
\* within [start_date, end_date]; missed logs and logs outside the range
\* change nothing.
C7_PeriodRateIsTakenOverExpected ==
    (/\ IsPeriodResult
     /\ out.start_date <= out.end_date
     /\ PeriodSchedule > 0)
    => /\ ~out.result.raised
       /\ RateIs(out.result.value,
                 100 * Cardinality(TakenIn(out.pk, out.start_date, out.end_date)),
                 ((out.end_date - out.start_date) + 1) * PeriodSchedule)

\* 2 per day, a one-day range, one taken log in the range and one taken log
\* outside it: 50.0
C7_Witness ==
    /\ IsPeriodResult
    /\ out.start_date <= out.end_date
    /\ PeriodSchedule = 2
    /\ Cardinality(TakenIn(out.pk, out.start_date, out.end_date)) = 1
    /\ \E l \in TakenOf(out.pk) :
          \/ DateOf(doseLogs[l].taken_at) < out.start_date
          \/ DateOf(doseLogs[l].taken_at) > out.end_date
    /\ out.result.value = [num |-> 50, den |-> 1]

\* C8: the days gate sorts every request into exactly one outcome, in this
\* order: absent -> 400 required; not an integer -> 400 valid integer;
\* <= 0 -> 400 positive; otherwise the parsed integer goes on.  A non-integer
\* string never reaches the positivity check, and expected_doses is not
\* invoked when the gate rejects.
C8_DaysGateClassifies ==
    IsExpectedDosesResponse
    => /\ out.param = NoParam
          => /\ out.status = 400
             /\ out.body = [error |-> "Query parameter 'days' is required."]
             /\ out.steps = <<"is_none">>
       /\ out.param \in NotIntegerParams
          => /\ out.status = 400
             /\ out.body = [error |-> "Days must be a valid integer."]
             /\ "positive" \notin Range(out.steps)
       /\ out.param \in NonPositiveParams
          => /\ out.status = 400
             /\ out.body =
                  [error |-> "Days must be a positive integer greater than zero."]
             /\ out.steps = <<"is_none", "int", "positive">>
       /\ out.param \in ValidParams
          => /\ SubSeq(out.steps, 1, 4) = <<"is_none", "int", "positive", "get_object">>
             /\ out.status = 200 => out.body.days = IntendedDays(out.param)
       /\ out.param \notin ValidParams
          => /\ "get_object" \notin Range(out.steps)
             /\ "expected_doses" \notin Range(out.steps)

\* "7.5" is turned away by the integer check
C8_Witness ==
    /\ IsExpectedDosesResponse
    /\ out.param = <<"7", ".", "5">>
    /\ out.status = 400
    /\ out.steps = <<"is_none", "int">>

\* C9: when days passes the gate and expected_doses fails (prescribed_per_day
\* = 0), the endpoint answers 400 with the calculator's message as 'error':
\* no server error, no success with expected_doses = 0.
C9_CalculatorFailureIsClientError ==
    (/\ GatePassed
     /\ out.pk \in DOMAIN medications
     /\ medications[out.pk].prescribed_per_day = 0)
    => /\ out.status = 400
       /\ out.body = [error |-> InvalidScheduleMessage]

C9_Witness ==
    /\ GatePassed
    /\ out.pk \in DOMAIN medications
    /\ medications[out.pk].prescribed_per_day = 0
    /\ out.status = 400
    /\ "expected_doses" \in Range(out.steps)

\* C10: with a valid positive days, a medication id that does not exist
\* (never created, or deleted earlier) is answered 404 and the calculator is
\* not run.
C10_UnknownMedicationIsNotFound ==
    (GatePassed /\ out.pk \notin DOMAIN medications)
    => /\ out.status = 404
       /\ "expected_doses" \notin Range(out.steps)

\* the id was handed out and the medication deleted since
C10_Witness ==
    /\ GatePassed
    /\ out.pk \notin DOMAIN medications
    /\ out.pk < nextMedId
    /\ out.status = 404

\* The payloads of Payloads that are a dict with a truthy 'error', by hand.
ErrorPayloads == { RateLimitPayload }

IsInfoResponse == out.op = "info" /\ out.pk \in DOMAIN medications

\* C11: for an existing medication, the info endpoint answers 502 with the
\* payload unchanged when the lookup returns a dict with a truthy 'error',
\* and 200 with the payload unchanged when it returns anything else; the
\* lookup is called exactly once, with the medication's name.
C11_InfoMapsLookupResult ==
    IsInfoResponse =>
        /\ out.calls = << medications[out.pk].name >>
        /\ out.reply.kind = "return" =>
              /\ out.body = out.reply.payload
              /\ out.status = IF out.reply.payload \in ErrorPayloads
                              THEN 502 ELSE 200

C11_Witness ==
    /\ IsInfoResponse
    /\ out.reply.kind = "return"
    /\ out.reply.payload = RateLimitPayload
    /\ out.status = 502
    /\ out.calls = << "Paracetamol" >>

\* C12: when the collaborator raises an exception, the info endpoint answers
\* 502 with a dict whose 'error' is the exception's message, whatever the
\* exception.
C12_RaisedIsUpstreamFailure ==
    (IsInfoResponse /\ out.reply.kind = "raise") =>
        /\ out.status = 502
        /\ out.body = PyDict([error |-> PyStr(out.reply.message)])

\* The date strings of DateParams that name a date, by hand, and the date
\* each one names.
ShortDateParam == <<"2", "0", "2", "5", "-", "1", "-", "2">>

ParsableDateParams == { DateString(d) : d \in Dates } \cup { ShortDateParam }

IntendedDate(param) ==
    IF param = ShortDateParam THEN 1
    ELSE CHOOSE d \in Dates : param = DateString(d)

IsFilterResponse == out.op = "filter-logs"

\* C13: the date filter answers 400, without querying the logs, whenever
\* 'start' or 'end' is missing or does not parse as a YYYY-MM-DD date.
C13_BadDatesAreClientErrors ==
    (IsFilterResponse /\ (out.start \notin ParsableDateParams
                          \/ out.end \notin ParsableDateParams)) =>
        /\ out.status = 400
        /\ "filter" \notin Range(out.steps)

\* C14: for two valid dates the filter answers with exactly the stored logs,
\* of all medications, dated from start to end inclusive, in ascending
\* taken_at.
C14_FilterIsInclusiveAndAscending ==
    (IsFilterResponse /\ out.start \in ParsableDateParams
                      /\ out.end \in ParsableDateParams) =>
        LET s == IntendedDate(out.start)
            e == IntendedDate(out.end)
            wanted == {l \in DOMAIN doseLogs :
                          s <= DateOf(doseLogs[l].taken_at)
                          /\ DateOf(doseLogs[l].taken_at) <= e}
        IN  /\ out.status = 200
            /\ Len(out.body) = Cardinality(wanted)
            /\ {out.body[i].id : i \in 1..Len(out.body)} = wanted
            /\ \A i \in 1..Len(out.body) :
                  /\ out.body[i].medication = doseLogs[out.body[i].id].medication
                  /\ out.body[i].taken_at = doseLogs[out.body[i].id].taken_at
                  /\ out.body[i].was_taken = doseLogs[out.body[i].id].was_taken
            /\ \A i \in 1..(Len(out.body) - 1) :
                  out.body[i].taken_at <= out.body[i + 1].taken_at

C14_Witness ==
    /\ IsFilterResponse
    /\ out.status = 200
    /\ out.start \in ParsableDateParams
    /\ out.end \in ParsableDateParams
    /\ Len(out.body) = 2
    /\ out.body[1].id > out.body[2].id
    /\ out.body[1].medication # out.body[2].medication
    /\ DateOf(out.body[1].taken_at) = IntendedDate(out.start)
    /\ DateOf(out.body[2].taken_at) = IntendedDate(out.end)
    /\ IntendedDate(out.start) < IntendedDate(out.end)

\* C19: a plain listing of the dose logs holds every stored log once, most
\* recent taken_at first, whatever the order of creation.
C19_DefaultOrderIsMostRecentFirst ==
    out.op = "list-logs" =>
        /\ Len(out.body) = Cardinality(DOMAIN doseLogs)
        /\ {out.body[i].id : i \in 1..Len(out.body)} = DOMAIN doseLogs
        /\ \A i \in 1..(Len(out.body) - 1) :
              /\ out.body[i].taken_at >= out.body[i + 1].taken_at
              /\ out.body[i].taken_at = doseLogs[out.body[i].id].taken_at
              /\ out.body[i + 1].taken_at = doseLogs[out.body[i + 1].id].taken_at

C19_Witness ==
    /\ out.op = "list-logs"
    /\ Len(out.body) = 2
    /\ out.body[1].id > out.body[2].id
    /\ out.body[1].taken_at > out.body[2].taken_at

\* C15: PUT and PATCH on a note are answered 405, and across every request a
\* stored note keeps its medication, text and date; a new note takes a
\* fresh id.
C15_NotesAreNeverUpdated ==
    [][ /\ out'.op = "update-note" => out'.status = 405
        /\ \A n \in DOMAIN notes \cap DOMAIN notes' : notes'[n] = notes[n]
        /\ \A n \in DOMAIN notes' \ DOMAIN notes :
              n = nextNoteId /\ nextNoteId' = nextNoteId + 1
        /\ nextNoteId' >= nextNoteId ]_vars

C15_Witness ==
    /\ out.op = "update-note"
    /\ out.method = "patch"
    /\ out.pk \in DOMAIN notes
    /\ out.status = 405

\* C16: creating a note dated after today is rejected on the date field and
\* stores nothing, a complete request dated today is stored, the clock never
\* goes back, and no stored note is dated after today.
C16_NoteDateNeverInFuture ==
    [][ /\ (out'.op = "create-note" /\ "date" \in DOMAIN out'.data
                                    /\ out'.data.date > today) =>
              /\ out'.status = 400
              /\ "date" \in DOMAIN out'.body
              /\ notes' = notes
        /\ (out'.op = "create-note"
              /\ DOMAIN out'.data = {"medication", "text", "date"}
              /\ out'.data.medication \in DOMAIN medications
              /\ out'.data.date = today) =>
              /\ out'.status = 201
              /\ DOMAIN notes' = DOMAIN notes \cup {out'.pk}
              /\ notes'[out'.pk].date = today
        /\ today' >= today
        /\ \A n \in DOMAIN notes' : notes'[n].date <= today' ]_vars

C16_Witness ==
    /\ out.op = "create-note"
    /\ out.status = 400
    /\ DOMAIN out.body = {"date"}
    /\ out.data.date > today
    /\ \E n \in DOMAIN notes : notes[n].date < today

\* C17: a note or a dose log created with a medication id that is not
\* stored, or with no medication, is answered 400 and the notes and the
\* dose logs stay as they were.
C17_UnknownMedicationIsRejected ==
    [][ (out'.op \in {"create-note", "create-log"}
           /\ ("medication" \notin DOMAIN out'.data
               \/ out'.data.medication \notin DOMAIN medications)) =>
            /\ out'.status = 400
            /\ notes' = notes
            /\ doseLogs' = doseLogs ]_vars

C17_Witness ==
    /\ out.op = "create-log"
    /\ out.status = 400
    /\ "medication" \in DOMAIN out.data
    /\ out.data.medication \notin DOMAIN medications
    /\ out.data.medication < nextMedId
    /\ medications # << >>

\* The medication parameters of NoteParams that are integers, by hand.
IntegerNoteParams == { <<"1">>, <<"2">> }

IntendedMedication(param) ==
    CASE param = <<"1">> -> 1
      [] param = <<"2">> -> 2

\* C18: a note listing with medication = m holds exactly the stored notes of
\* medication m, and a listing without the parameter holds every stored
\* note.
C18_ListFiltersByMedication ==
    out.op = "list-notes" =>
        LET listed(ids) == {[id |-> n, medication |-> notes[n].medication,
                             text |-> notes[n].text, date |-> notes[n].date] :
                               n \in ids}
        IN  /\ out.status = 200
            /\ out.param = NoParam => out.body = listed(DOMAIN notes)
            /\ out.param \in IntegerNoteParams =>
                  out.body = listed({n \in DOMAIN notes :
                      notes[n].medication = IntendedMedication(out.param)})

C18_Witness ==
    /\ out.op = "list-notes"
    /\ out.param = <<"2">>
    /\ Cardinality(out.body) = 1
    /\ Cardinality(DOMAIN notes) = 2

\* an id the store handed out and no longer holds
Gone(store, nextId, pk) == pk < nextId /\ pk \notin DOMAIN store

Without(store, pk) == [i \in DOMAIN store \ {pk} |-> store[i]]

\* what a delete answers and removes from its own collection, and what a
\* request for a deleted id answers when an update of it answers `updated`
DeleteContract(updatedNote) ==
    /\ out'.op = "delete-medication" =>
          IF out'.pk \in DOMAIN medications
          THEN out'.status = 204 /\ medications' = Without(medications, out'.pk)
          ELSE out'.status = 404 /\ medications' = medications
                                 /\ doseLogs' = doseLogs /\ notes' = notes
    /\ out'.op = "delete-log" =>
          /\ medications' = medications /\ notes' = notes
          /\ IF out'.pk \in DOMAIN doseLogs
             THEN out'.status = 204 /\ doseLogs' = Without(doseLogs, out'.pk)
             ELSE out'.status = 404 /\ doseLogs' = doseLogs
    /\ (out'.op = "delete-note" /\ out'.param = NoParam) =>
          /\ medications' = medications /\ doseLogs' = doseLogs
          /\ IF out'.pk \in DOMAIN notes
             THEN out'.status = 204 /\ notes' = Without(notes, out'.pk)
             ELSE out'.status = 404 /\ notes' = notes
    /\ (out'.op \in {"retrieve-medication", "update-medication",
                     "delete-medication"}
          /\ Gone(medications, nextMedId, out'.pk)) => out'.status = 404
    /\ (out'.op \in {"retrieve-log", "update-log", "delete-log"}
          /\ Gone(doseLogs, nextLogId, out'.pk)) => out'.status = 404
    /\ (out'.op \in {"retrieve-note", "delete-note"}
          /\ Gone(notes, nextNoteId, out'.pk)) => out'.status = 404
    /\ (out'.op = "update-note" /\ Gone(notes, nextNoteId, out'.pk)) =>
          out'.status = updatedNote

SnapshotStore(medication) ==
    [i \in {medication.id} |->
        [name |-> medication.name,
         prescribed_per_day |-> medication.prescribed_per_day]]

\* the response is the one the handler gives, run in one piece on store meds
AnswersAsAlone(response, meds, req, reply) ==
    IF req.op = "expected-doses"
    THEN response = MedicationViewSet_expected_doses(meds, req.pk, req.param)
    ELSE LET alone == MedicationViewSet_get_external_info(meds, req.pk, reply)
         IN  /\ response.op = "info" /\ response.pk = req.pk
             /\ response.status = alone.status
             /\ response.body = alone.body
             /\ response.calls = alone.calls

SucceedingReplies ==
    {r \in Replies : r.kind = "return" /\ r.payload \notin ErrorPayloads}

IndependentStep(w) ==
    LET req == inflight[w]
        now == inflight'[w]
    IN  /\ req.pc = "idle" /\ now.pc # "idle" => now.pc = "received"
        /\ req.pc = "received" /\ now.pc = "received" => now = req
        /\ req.pc = "received" /\ now.pc = "loaded" =>
               /\ now.medication = get_object(medications, req.pk)
               /\ now.medication.found
               /\ now.op = req.op /\ now.pk = req.pk /\ now.param = req.param
        /\ req.pc = "received" /\ now.pc = "idle" =>
               /\ out'.status \in {400, 404}
               /\ \A reply \in Replies :
                      AnswersAsAlone(out', medications, req, reply)
        /\ req.pc = "loaded" /\ now.pc = "loaded" => now = req
        /\ req.pc = "loaded" /\ now.pc = "idle" =>
               /\ req.op = "info" => out'.reply \in Replies
               /\ AnswersAsAlone(out', SnapshotStore(req.medication), req,
                                 IF req.op = "info" THEN out'.reply
                                 ELSE [kind |-> "none"])
               /\ req.op = "info" /\ out'.reply \in SucceedingReplies =>
                      out'.status = 200

\* C21: requests handled side by side do not affect each other. A thread's
\* request and the medication it loaded are changed by no other thread or
\* write; the medication it loads is the stored one at the moment of the
\* lookup; and its response is the one the handler gives when run alone on
\* that medication with the request's own parameter and the collaborator's
\* reply. An info request whose medication was found answers 200 whenever
\* the collaborator returns a payload without an error, whatever the other
\* threads are doing.
C21_RequestsAreIndependent ==
    [][\A w \in Workers : IndependentStep(w)]_vars

\* an info request answered 200 for the name its medication had when it was
\* loaded, the medication renamed since, while another thread is in the
\* middle of an info request for a different medication
C21_Witness ==
    /\ out.op = "info" /\ out.status = 200
    /\ out.pk \in DOMAIN medications
    /\ out.calls = << "Aspirin" >>
    /\ medications[out.pk].name = "Paracetamol"
    /\ \E w \in Workers :
          /\ inflight[w].pc = "loaded"
          /\ inflight[w].op = "info"
          /\ inflight[w].pk # out.pk

\* The medication parameters of NoteParams that int() rejects, by hand: a
\* word and the empty string.
NotIntegerNoteParams == { <<"a", "b", "c">>, << >> }

\* C22: a note listing whose medication parameter is not an integer answers
\* 200 with an empty list, whatever notes are stored.
C22_BadFilterListsNothing ==
    out.op = "list-notes" /\ out.param \in NotIntegerNoteParams
    => out.status = 200 /\ out.body = {}

\* two notes are stored and the listing for medication=abc is empty
C22_Witness ==
    /\ out.op = "list-notes"
    /\ out.param = <<"a", "b", "c">>
    /\ out.status = 200
    /\ out.body = {}
    /\ Cardinality(DOMAIN notes) = 2

\* the request names a medication filter that note pk does not pass: the
\* filter is not an integer, or it is the id of another medication
ScopedOut(pk, param) ==
    /\ pk \in DOMAIN notes
    /\ \/ param \in NotIntegerNoteParams
       \/ /\ param \in IntegerNoteParams
          /\ notes[pk].medication # IntendedMedication(param)

\* C26: a retrieve or a delete of a stored note with a medication parameter
\* that is not an integer, or that is another medication's id, answers 404
\* and leaves the notes as they are.
C26_DetailIsScopedByMedication ==
    [][(/\ out'.op \in {"retrieve-note", "delete-note"}
        /\ ScopedOut(out'.pk, out'.param))
       => out'.status = 404 /\ notes' = notes]_vars

\* DELETE /notes/n/?medication=m for a stored note of the other medication
\* was answered 404 and the note is still stored
C26_Witness ==
    /\ out.op = "delete-note"
    /\ out.status = 404
    /\ out.param \in IntegerNoteParams
    /\ out.pk \in DOMAIN notes
    /\ notes[out.pk].medication # IntendedMedication(out.param)

\* C23: the adherence a medication is serialized with is 100 * K / N over
\* the N logs that reference it now, K of them taken (0 when N = 0), after
\* any creates, updates and deletes of dose logs; no stored medication holds
\* an adherence, also after a PATCH that sends one.
C23_AdherenceIsComputedAtReadTime ==
    /\ \A pk \in DOMAIN medications :
          DOMAIN medications[pk] = {"name", "prescribed_per_day"}
    /\ out.op \in {"retrieve-medication", "patch-medication"}
       /\ out.status = 200
       => LET N == Cardinality(LogsOf(out.pk))
              K == Cardinality(TakenOf(out.pk))
          IN  IF N = 0
              THEN out.body.adherence = [num |-> 0, den |-> 1]
              ELSE RateIs(out.body.adherence, 100 * K, N)

\* a PATCH that sent adherence = 100 answered with 0, the medication's one
\* log being a missed one, while the other medication has a taken log
C23_Witness ==
    /\ out.op = "patch-medication"
    /\ out.status = 200
    /\ out.data = [adherence |-> [num |-> 100, den |-> 1]]
    /\ out.body.adherence = [num |-> 0, den |-> 1]
    /\ Cardinality(LogsOf(out.pk)) = 1
    /\ \E l \in DOMAIN doseLogs :
          doseLogs[l].medication # out.pk /\ doseLogs[l].was_taken

\* C24: in every state the requests of the three viewsets can reach, every
\* stored dose log and every stored note references a stored medication.
C24_ReferencesExist ==
    /\ \A l \in DOMAIN doseLogs :
          doseLogs[l].medication \in DOMAIN medications
    /\ \A n \in DOMAIN notes :
          notes[n].medication \in DOMAIN medications

\* a medication was deleted, a dose log had been created and none is left,
\* and another medication is still stored
C24_Witness ==
    /\ out.op = "delete-medication"
    /\ out.status = 204
    /\ nextLogId > 1
    /\ doseLogs = << >>
    /\ medications # << >>

DerivedOps == {"expected-doses", "info", "filter-logs"}

\* C25: a request of a derived endpoint (expected-doses, info, the date
\* filter of dose logs), whatever it answers, leaves the medications, the
\* dose logs and the notes as they were, and hands out no id.
C25_DerivedEndpointsAreReadOnly ==
    [][out'.op \in DerivedOps
       => UNCHANGED <<medications, nextMedId, doseLogs, nextLogId, notes,
                      nextNoteId>>]_vars

\* an info request was answered 502 and the store holds a medication, a
\* dose log and a note
C25_Witness ==
    /\ out.op = "info"
    /\ out.status = 502
    /\ medications # << >>
    /\ doseLogs # << >>
    /\ notes # << >>

\* C27: for two valid dates with start after end the date filter answers 200
\* with an empty list, whatever logs are stored, while
\* adherence_rate_over_period fails with the invalid-range error for such
\* dates.
C27_FilterAcceptsInvertedRange ==
    /\ (/\ IsFilterResponse
        /\ out.start \in ParsableDateParams
        /\ out.end \in ParsableDateParams
        /\ IntendedDate(out.start) > IntendedDate(out.end))
       => out.status = 200 /\ out.body = << >>
    /\ (IsPeriodResult /\ out.start_date > out.end_date)
       => /\ out.result.raised
          /\ out.result.error = InvalidRangeMessage

\* the filter answered 200 with nothing for an inverted range that has a
\* stored log between its two dates
C27_Witness ==
    /\ IsFilterResponse
    /\ out.start \in ParsableDateParams
    /\ out.end \in ParsableDateParams
    /\ IntendedDate(out.start) > IntendedDate(out.end)
    /\ out.status = 200
    /\ out.body = << >>
    /\ \E l \in DOMAIN doseLogs :
          /\ IntendedDate(out.end) <= DateOf(doseLogs[l].taken_at)
          /\ DateOf(doseLogs[l].taken_at) <= IntendedDate(out.start)

\* The payloads of Payloads that are not a dict with a truthy 'error', by
\* hand: a dict whose 'error' is '', None or 0, a dict without the key, and
\* payloads that are no dict (a list, None, a str).
FalsyErrorPayloads == { EmptyErrorPayload, NoneErrorPayload, ZeroErrorPayload }

NoErrorKeyPayloads == { EmptyResults, InfoRecord }

NotDictPayloads == { PyEmptyList, PyNone, PyStr("error") }

\* C28: for a stored medication, a lookup that returns a dict with a falsy
\* 'error', a dict without 'error', or something that is no dict is answered
\* 200 with that payload unchanged; a 502 always carries a dict whose 'error'
\* is neither '', None nor 0.
C28_OnlyTruthyErrorFails ==
    IsInfoResponse =>
        /\ (/\ out.reply.kind = "return"
            /\ out.reply.payload \in FalsyErrorPayloads \cup NoErrorKeyPayloads
                                      \cup NotDictPayloads)
           => out.status = 200 /\ out.body = out.reply.payload
        /\ out.status = 502
           => /\ out.body.type = "dict"
              /\ "error" \in DOMAIN out.body.items
              /\ out.body.items.error \notin {PyStr(""), PyNone, PyZero}

\* the lookup returned {'error': 0} and the answer is 200 with that dict
C28_Witness ==
    /\ IsInfoResponse
    /\ out.reply.kind = "return"
    /\ out.reply.payload = ZeroErrorPayload
    /\ out.status = 200
    /\ out.body = ZeroErrorPayload

\* the rate r lies in [0, 100]; the rate r is above 100
WithinPercent(r) == r.den > 0 /\ r.num >= 0 /\ r.num <= 100 * r.den

Above100(r) == r.den > 0 /\ r.num > 100 * r.den

\* what C29 says of a period result for a valid range: a number, never
\* negative, and above 100 in the cases `over`
PeriodRateExceeds(over) ==
    (IsPeriodResult /\ out.start_date <= out.end_date)
    => /\ ~out.result.raised
       /\ out.result.value.den > 0
       /\ out.result.value.num >= 0
       /\ over => Above100(out.result.value)

TakenExceedsExpected ==
    Cardinality(TakenIn(out.pk, out.start_date, out.end_date))
        > ((out.end_date - out.start_date) + 1) * PeriodSchedule

\* C29 as stated: adherence_rate() lies in [0, 100]; for a valid range
\* adherence_rate_over_period is >= 0 and is above 100 whenever the taken
\* logs in the range outnumber days_in_range * prescribed_per_day.
C29_PeriodRateExceedsWheneverOutnumbered ==
    /\ out.op = "adherence_rate" => WithinPercent(out.value)
    /\ PeriodRateExceeds(TakenExceedsExpected)

\* C29, amended: adherence_rate() lies in [0, 100]; for a valid range
\* adherence_rate_over_period is >= 0, is above 100 whenever
\* prescribed_per_day > 0 and the taken logs in the range outnumber
\* days_in_range * prescribed_per_day, and is 0 for prescribed_per_day = 0
\* however many taken logs the range holds.
C29_PeriodRateExceedsWhenScheduled ==
    /\ out.op = "adherence_rate" => WithinPercent(out.value)
    /\ PeriodRateExceeds(PeriodSchedule > 0 /\ TakenExceedsExpected)
    /\ (IsPeriodResult /\ out.start_date <= out.end_date /\ PeriodSchedule = 0)
       => out.result.value = [num |-> 0, den |-> 1]

\* 1 per day, a one-day range holding two taken logs: 200.0
C29_Witness ==
    /\ IsPeriodResult
    /\ out.start_date = out.end_date
    /\ PeriodSchedule = 1
    /\ Cardinality(TakenIn(out.pk, out.start_date, out.end_date)) = 2
    /\ out.result.value = [num |-> 200, den |-> 1]

\* the message of the days gate for each rejected string of DaysParams
GateMessage(param) ==
    IF param = NoParam THEN "Query parameter 'days' is required."
    ELSE IF param \in NotIntegerParams THEN "Days must be a valid integer."
    ELSE "Days must be a positive integer greater than zero."

\* C30: an expected-doses request for a medication id that is not stored is
\* answered 400 with the gate's message, without a lookup, when days is
\* absent, not an integer or not positive; an expected-doses response is 404
\* only for a valid days (and an id that is not stored).
C30_DaysGateBeforeLookup ==
    IsExpectedDosesResponse
    => /\ (out.pk \notin DOMAIN medications /\ out.param \notin ValidParams)
          => /\ out.status = 400
             /\ out.body = [error |-> GateMessage(out.param)]
             /\ "get_object" \notin Range(out.steps)
       /\ out.status = 404
          => /\ out.param \in ValidParams
             /\ out.pk \notin DOMAIN medications

\* days=0 for a medication that was deleted: 400, not 404
C30_Witness ==
    /\ IsExpectedDosesResponse
    /\ out.pk \notin DOMAIN medications
    /\ out.pk < nextMedId
    /\ out.param = <<"0">>
    /\ out.status = 400
    /\ out.body = [error |-> "Days must be a positive integer greater than zero."]

====
